---- MODULE Spec2Model ----
(***************************************************************************)
(* A model of keras/saving/experimental/saving_lib.py: the zip archive      *)
(* writer/reader (save, load), the recursive state walk (_save_state,       *)
(* _load_state, _get_unique_children_dict) and the polymorphic codec        *)
(* (serialize_keras_object, deserialize_keras_object).                      *)
(*                                                                          *)
(* Python values are written as tuples and records of strings; Python's     *)
(* None is the string "None".  Paths and dictionary keys are strings built  *)
(* the way the code builds them (joined with "/", suffixed with "-<k>").    *)
(***************************************************************************)
EXTENDS Naturals, Sequences, FiniteSets, TLC

None == "None"

\* ------------------------------------------------------------------ bounds
\* Total number of child references a caller may track in the object graph.
MaxRefs == 3
\* Longest list-valued child.
MaxList == 2
\* Number of save/load calls in one behaviour.
MaxCalls == 2
\* Depth of nested _save_state/_load_state frames the interpreter allows
\* before it raises RecursionError (Python's recursion limit).
RecursionLimit == 4
\* Number of registration calls in one behaviour.
MaxRegs == 2

\* --------------------------------------------------------------- constants
ARCHIVE_FILENAME == "archive.keras"
STATES_FILENAME == "states.npz"
CONFIG_FILENAME == "config.json"
STATES_ROOT_DIRNAME == "model"

\* ------------------------------------------------- the types of the process
\* The classes a process knows.  "str" and "function" are Python's own types;
\* "Shadow" is a second class defined with MyLayer's module and name (a class
\* redefined or defined in a local scope); "Variable" is tf.Variable.
Classes == {"Dense", "Activation", "MyLayer", "Shadow", "Adam", "Variable",
            "str", "function"}

\* type.__module__
ClassModule(c) ==
    CASE c = "Dense" -> "keras.layers.core"
      [] c = "Activation" -> "keras.layers.core"
      [] c = "MyLayer" -> "user_mod"
      [] c = "Shadow" -> "user_mod"
      [] c = "Adam" -> "keras.optimizers"
      [] c = "Variable" -> "tf_mod"
      [] OTHER -> "builtins"

\* type.__name__
ClassName(c) == IF c = "Shadow" THEN "MyLayer" ELSE c

\* isinstance(obj, base_layer.Layer)
IsLayerClass(c) == c \in {"Dense", "Activation", "MyLayer", "Shadow"}

\* The state hooks _save_state/_load_state are methods of base_layer.Layer.
HasStateHooks(c) == IsLayerClass(c)

\* Whether an object of the class has runtime state to externalize: a layer
\* without weights returns None from its _save_state.
ProducesState(c) == c \in {"Dense", "MyLayer", "Shadow"}

HasGetConfig(c) == c \in {"Dense", "Activation", "MyLayer", "Shadow", "Adam"}

HasFromConfig(c) == c \in {"Dense", "Activation", "MyLayer", "Shadow", "Adam"}

\* The names exported by keras_export, and their classes.
ExportTable ==
    [n \in {"keras.layers.Dense", "keras.layers.Activation",
            "keras.optimizers.Adam"} |->
        CASE n = "keras.layers.Dense" -> "Dense"
          [] n = "keras.layers.Activation" -> "Activation"
          [] OTHER -> "Adam"]

\* tf_export.get_canonical_name_for_symbol(cls, api_name="keras")
GetCanonicalNameForSymbol(c) ==
    IF \E n \in DOMAIN ExportTable : ExportTable[n] = c
    THEN CHOOSE n \in DOMAIN ExportTable : ExportTable[n] = c
    ELSE None

\* tf_export.get_symbol_from_name(name): None when the name is not exported.
GetSymbolFromName(n) ==
    IF n \in DOMAIN ExportTable THEN ExportTable[n] ELSE None

\* --------------------------------------------------------------- the state
Objects == {1, 2, 3}
Attrs == {"a", "a-0"}
\* The object a caller hands to save: the model.
Roots == {1}
Aliases == {"pkg>X", "pkg>Y"}
Functions == {"my_fn"}
\* The modules importlib.import_module can import.
Modules == {"keras.layers.core", "keras.optimizers", "user_mod", "tf_mod",
            "builtins"}

VARIABLES
    cls,        \* cls[o]: the class of object o
    children,   \* children[o]: what ObjectGraphView(o).children(o) yields,
                \* in dictionary order: a sequence of [attr, list, objs]
    registry,   \* the registration table: alias -> class or function, or None
    aliasOf,    \* the reverse table: class or function -> alias, or None
    userAttr,   \* vars(user_mod).get("MyLayer"): a class, or None
    archive,    \* dirpath/archive.keras: [exists, entries], the entries a
                \* sequence of <<name, content>> in the order written
    tempDirs,   \* the scratch directories that exist under dirpath
    archived,   \* "none", "partial" (save began it) or "complete" (save ended)
    pc,         \* "build" before the first call, then "idle", "save" or "load"
    op,         \* the latest call: None, "save" or "load"
    ncalls,     \* save/load calls begun
    nregs,      \* registration calls made
    given,      \* the object handed to the save that created the archive
    root,       \* the value the latest call was given (save) or built (load)
    stack,      \* the pending _save_state/_load_state invocations of the call
    visits,     \* the invocations the call in progress (or just ended) made
    saved,      \* the invocations made by the save that created the archive
    result,     \* how the latest call ended: None, "ok" or the error raised
    before,     \* the archive as the latest call found it
    rec,        \* codec: the record or value handed to the latest codec call
    out         \* codec: what the latest codec call returned

vars == <<cls, children, registry, aliasOf, userAttr, archive, archived,
          tempDirs, pc, op, ncalls, nregs, given, root, stack, visits, saved,
          result, before, rec, out>>

tableVars == <<registry, aliasOf, nregs>>
codecVars == <<rec, out>>
fileVars == <<archive, archived, tempDirs>>
callVars == <<pc, op, ncalls, given, root, stack, visits, saved, result, before>>

\* ------------------------------------------------------------ Python values
Instance(c, cfg) == [kind |-> "instance", of |-> c, config |-> cfg]
StrValue(s) == [kind |-> "str", of |-> "str", config |-> <<"str", s>>]
FunctionValue(fn) == [kind |-> "function", of |-> fn, config |-> <<>>]
ClassValue(c) == [kind |-> "class", of |-> c, config |-> <<>>]
NoneValue == [kind |-> "none", of |-> None, config |-> <<>>]

\* What a registered or module-level name stands for, as a value.
NamedValue(x) ==
    IF x = None THEN NoneValue
    ELSE IF x \in Functions THEN FunctionValue(x)
    ELSE ClassValue(x)

\* A call's outcome: the error raised (None when it returned) and the value.
Returned(v) == [error |-> None, value |-> v]
Raised(e) == [error |-> e, value |-> NoneValue]

\* A deserialization outcome, with the resolution tier that produced it.
Via(tier, r) == [error |-> r.error, value |-> r.value, via |-> tier]

\* The record of a serialization that raised.
NoRecord == [module |-> None, class_name |-> None, config |-> <<>>,
             registered_name |-> None]

\* obj.get_config(): the configuration the object was built from.
GetConfig(o) == <<"dict", "name", ToString(o)>>

\* The live object o as a value.
AsValue(o) == Instance(cls[o], GetConfig(o))

\* cls.from_config(config)
FromConfig(c, cfg) == Instance(c, cfg)

\* The object a configuration names: the tree from_config rebuilds has the
\* child names and the shape of the tree of the object that gave the config.
TwinOf(cfg) == CHOOSE o \in Objects : GetConfig(o) = cfg

\* dict.get(key, None) on a JSON mapping <<"dict", k1, v1, k2, v2, ...>>
DictGet(d, key) ==
    IF \E i \in 1..Len(d) : i % 2 = 0 /\ i < Len(d) /\ d[i] = key
    THEN d[(CHOOSE i \in 1..Len(d) : i % 2 = 0 /\ i < Len(d) /\ d[i] = key) + 1]
    ELSE None

\* ------------------------------------------------------ registration tables
\* generic_utils.get_registered_name(cls_or_fn)
GetRegisteredName(x) == aliasOf[x]

\* generic_utils.get_custom_objects_by_name(name)
GetCustomObjectsByName(name) ==
    IF name \in DOMAIN registry THEN registry[name] ELSE None

\* vars(importlib.import_module(module)).get(name, None), module importable
ModuleVars(module, name) ==
    CASE module = "user_mod" /\ name = "MyLayer" -> userAttr
      [] module = "user_mod" /\ name = "my_fn" -> "my_fn"
      [] module = "keras.layers.core" /\ name \in {"Dense", "Activation"} -> name
      [] module = "keras.optimizers" /\ name = "Adam" -> name
      [] module = "tf_mod" /\ name = "Variable" -> name
      [] module = "builtins" /\ name = "str" -> name
      [] OTHER -> None

\* ---------------------------------------------------------------- the codec
\* _get_object_registered_name
GetObjectRegisteredName(v) ==
    IF v.kind = "function" THEN GetRegisteredName(v.of)
    ELSE GetRegisteredName(IF v.kind = "str" THEN "str" ELSE v.of)

\* _get_object_config
GetObjectConfig(v) ==
    IF v.kind = "str" THEN Returned(v.config)
    ELSE IF v.kind = "function"
    THEN Returned(<<"dict", "module", "user_mod", "function_name", v.of>>)
    ELSE IF ~HasGetConfig(v.of) THEN Raised("TypeError")
    ELSE Returned(v.config)

\* obj.__class__
TypeOf(v) ==
    IF v.kind = "str" THEN "str"
    ELSE IF v.kind = "function" THEN "function"
    ELSE v.of

\* serialize_keras_object: the Config Record of a value, or the error raised.
SerializeKerasObject(v) ==
    LET canonical == GetCanonicalNameForSymbol(TypeOf(v))
        module == IF canonical = None THEN ClassModule(TypeOf(v)) ELSE None
        class_name == IF canonical = None THEN ClassName(TypeOf(v)) ELSE canonical
        config == GetObjectConfig(v)
    IN  IF config.error # None THEN [error |-> config.error, value |-> NoRecord]
        ELSE [error |-> None,
              value |-> [module |-> module,
                         class_name |-> class_name,
                         config |-> config.value,
                         registered_name |-> GetObjectRegisteredName(v)]]

\* The builtins branch of deserialize_keras_object for class_name "function".
DeserializeFunction(config_dict) ==
    LET config == config_dict.config
        custom_function == GetCustomObjectsByName(config_dict.registered_name)
        function_module == DictGet(config, "module")
        function_name == DictGet(config, "function_name")
    IN  IF custom_function # None
        THEN Via("registered", Returned(NamedValue(custom_function)))
        ELSE IF function_module = None
        THEN Via("function", Raised("AttributeError"))
        ELSE IF function_module \notin Modules
        THEN Via("function", Raised("ImportError"))
        ELSE IF function_name = None
        THEN Via("function", Raised("KeyError"))
        ELSE Via("function",
                 Returned(NamedValue(ModuleVars(function_module, function_name))))

\* custom_class.from_config(config) on whatever the registration table holds.
ConstructRegistered(custom_class, config) ==
    IF custom_class \in Classes /\ HasFromConfig(custom_class)
    THEN Returned(FromConfig(custom_class, config))
    ELSE Raised("AttributeError")

\* The class named by module and class_name: the exported symbol when module
\* is None, the module's attribute otherwise.
ResolveClass(module, class_name) ==
    IF module = None THEN Via("exported", Returned(GetSymbolFromName(class_name)))
    ELSE IF module \notin Modules THEN Via("module", Raised("ImportError"))
    ELSE Via("module", Returned(ModuleVars(module, class_name)))

\* A slip: the class looked up by module and class_name first, the
\* registration table consulted only when that finds nothing.
DeserializeClassPathFirst(config_dict) ==
    LET custom_class == GetCustomObjectsByName(config_dict.registered_name)
        found == ResolveClass(config_dict.module, config_dict.class_name)
    IN  IF found.error = None /\ found.value \in Classes /\ HasFromConfig(found.value)
        THEN Via(found.via, Returned(FromConfig(found.value, config_dict.config)))
        ELSE IF custom_class # None
        THEN Via("registered",
                 ConstructRegistered(custom_class, config_dict.config))
        ELSE Via(found.via, Raised("TypeError"))

\* The branch of deserialize_keras_object for classes.
DeserializeClass(config_dict) ==
    LET custom_class == GetCustomObjectsByName(config_dict.registered_name)
        found == ResolveClass(config_dict.module, config_dict.class_name)
    IN  IF custom_class # None
        THEN Via("registered",
                 ConstructRegistered(custom_class, config_dict.config))
        ELSE IF found.error # None THEN Via(found.via, Raised(found.error))
        ELSE IF ~(found.value \in Classes /\ HasFromConfig(found.value))
        THEN Via(found.via, Raised("TypeError"))
        ELSE Via(found.via,
                 Returned(FromConfig(found.value, config_dict.config)))

\* deserialize_keras_object
DeserializeKerasObject(config_dict) ==
    IF config_dict.module = "builtins"
    THEN IF config_dict.class_name = "str"
         THEN IF config_dict.config[1] # "str"
              THEN Via("str", Raised("TypeError"))
              ELSE Via("str", Returned(StrValue(config_dict.config[2])))
         ELSE IF config_dict.class_name = "function"
         THEN DeserializeFunction(config_dict)
         ELSE Via("builtins", Raised("TypeError"))
    ELSE DeserializeClass(config_dict)

\* -------------------------------------------------------------------- JSON
\* json.dumps(..., cls=json_utils.Encoder): the text, as its tokens in the
\* order the keys were inserted; None is written null.
JsonScalar(x) == IF x = None THEN <<"null">> ELSE <<"string", x>>

EncodeJson(d) ==
    <<"module", JsonScalar(d.module),
      "class_name", JsonScalar(d.class_name),
      "config", d.config,
      "registered_name", JsonScalar(d.registered_name)>>

PyScalar(j) == IF j[1] = "null" THEN None ELSE j[2]

JsonMember(text, key) ==
    text[(CHOOSE i \in 1..Len(text) : i % 2 = 1 /\ text[i] = key) + 1]

\* json_utils.decode
DecodeJson(text) ==
    [module |-> PyScalar(JsonMember(text, "module")),
     class_name |-> PyScalar(JsonMember(text, "class_name")),
     config |-> JsonMember(text, "config"),
     registered_name |-> PyScalar(JsonMember(text, "registered_name"))]

\* ------------------------------------------------------ the zip archive file
NoArchive == [exists |-> FALSE, entries |-> <<>>]

\* A slip: the archive opened with mode "w", which truncates what is there.
ZipCreateTruncating(a) ==
    [error |-> None, file |-> [exists |-> TRUE, entries |-> <<>>]]

\* zipfile.ZipFile(file_path, "x"): exclusive creation.
ZipCreate(a) ==
    IF a.exists THEN [error |-> "FileExistsError", file |-> a]
    ELSE [error |-> None, file |-> [exists |-> TRUE, entries |-> <<>>]]

\* z.write / z.open(name, "w"): a new entry at the end of the archive.
ZipWrite(a, name, content) ==
    [a EXCEPT !.entries = Append(@, <<name, content>>)]

\* z.namelist()
Namelist(a) == {a.entries[i][1] : i \in 1..Len(a.entries)}

\* z.extract / z.open(name, "r"): the content of the latest entry of the name.
ZipRead(a, name) ==
    a.entries[CHOOSE i \in 1..Len(a.entries) :
                 /\ a.entries[i][1] = name
                 /\ \A j \in (i + 1)..Len(a.entries) : a.entries[j][1] # name][2]

\* ---------------------------------------------------------------- the walker
\* f"{child_attr}-{k}"
ListKey(child_attr, k) == child_attr \o "-" \o ToString(k)

\* tf.io.gfile.join(a, b)
JoinPath(a, b) == a \o "/" \o b

\* unique_children_dict[key] = obj on a dict kept as its items in insertion
\* order: a key already present keeps its place and takes the new value.
DictSet(d, key, obj) ==
    IF \E i \in 1..Len(d) : d[i][1] = key
    THEN [i \in 1..Len(d) |-> IF d[i][1] = key THEN <<key, obj>> ELSE d[i]]
    ELSE Append(d, <<key, obj>>)

\* _collect_key_object_in_dict, on st = [dict, added]
CollectKeyObjectInDict(key, obj, st) ==
    IF cls[obj] # "Variable" /\ obj \notin st.added
    THEN [dict |-> DictSet(st.dict, key, obj), added |-> st.added \cup {obj}]
    ELSE st

\* The inner loop of _get_unique_children_dict: for k, child_item in
\* enumerate(child_obj), from index k on.
RECURSIVE CollectList(_, _, _, _)
CollectList(child_attr, objs, k, st) ==
    IF k >= Len(objs) THEN st
    ELSE CollectList(child_attr, objs, k + 1,
             CollectKeyObjectInDict(ListKey(child_attr, k), objs[k + 1], st))

\* The outer loop of _get_unique_children_dict, from item i on.
RECURSIVE CollectChildren(_, _, _)
CollectChildren(children_dict, i, st) ==
    IF i > Len(children_dict) THEN st
    ELSE LET e == children_dict[i]
         IN  CollectChildren(children_dict, i + 1,
                 IF e.list THEN CollectList(e.attr, e.objs, 0, st)
                 ELSE CollectKeyObjectInDict(e.attr, e.objs[1], st))

\* _get_unique_children_dict: the items of the dict it returns.
GetUniqueChildrenDict(trackable) ==
    CollectChildren(children[trackable], 1, [dict |-> <<>>, added |-> {}]).dict

\* _is_keras_trackable
IsKerasTrackable(o) == IsLayerClass(cls[o])

\* The recursive calls the loop over unique_children_dict makes from the frame
\* of `trackable` at zip_dir_path, in order, one level deeper.
RECURSIVE ChildFrames(_, _, _)
ChildFrames(items, zip_dir_path, depth) ==
    IF items = <<>> THEN <<>>
    ELSE LET child_attr == Head(items)[1]
             child_obj == Head(items)[2]
             rest == ChildFrames(Tail(items), zip_dir_path, depth)
         IN  IF IsKerasTrackable(child_obj)
             THEN <<[obj |-> child_obj, class |-> cls[child_obj],
                     path |-> JoinPath(zip_dir_path, child_attr),
                     depth |-> depth + 1]>> \o rest
             ELSE rest

\* trackable._save_state(...) of an object of class c that does not raise:
\* the state blob written, <<>> when it returns None.
StateOf(o, c) ==
    IF ProducesState(c) THEN <<"state", ToString(o)>> ELSE <<>>

\* ------------------------------------------------------------- the caller
RECURSIVE CountRefs(_, _)
CountRefs(cd, i) ==
    IF i > Len(cd) THEN 0 ELSE Len(cd[i].objs) + CountRefs(cd, i + 1)

TotalRefs == CountRefs(children[1], 1) + CountRefs(children[2], 1)
             + CountRefs(children[3], 1)

HasAttr(o, attr) == \E i \in 1..Len(children[o]) : children[o][i].attr = attr

\* Whether some object tracks o as a child.
Tracked(o) ==
    \E p \in Objects : \E i \in 1..Len(children[p]) :
        \E k \in 1..Len(children[p][i].objs) : children[p][i].objs[k] = o

\* The caller builds the model top down, before the first call: children are
\* given to the model and to the layers the graph already holds.
CanTrack(parent) ==
    /\ pc = "build"
    /\ TotalRefs < MaxRefs
    /\ IsLayerClass(cls[parent])
    /\ parent \in Roots \/ Tracked(parent)

\* parent.<attr> = child: the child is tracked under the attribute's name.
TrackAttr(parent, attr, child) ==
    /\ CanTrack(parent)
    /\ ~HasAttr(parent, attr)
    /\ children' = [children EXCEPT ![parent] =
                       Append(@, [attr |-> attr, list |-> FALSE, objs |-> <<child>>])]
    /\ UNCHANGED <<cls, userAttr, tableVars, fileVars, callVars, codecVars>>

\* parent.<attr> = [child]: a list-valued child.
TrackList(parent, attr, child) ==
    /\ CanTrack(parent)
    /\ ~HasAttr(parent, attr)
    /\ children' = [children EXCEPT ![parent] =
                       Append(@, [attr |-> attr, list |-> TRUE, objs |-> <<child>>])]
    /\ UNCHANGED <<cls, userAttr, tableVars, fileVars, callVars, codecVars>>

\* parent.<attr>.append(child) on the list tracked last.
TrackAppend(parent, child) ==
    /\ CanTrack(parent)
    /\ children[parent] # <<>>
    /\ LET n == Len(children[parent])
       IN  /\ children[parent][n].list
           /\ Len(children[parent][n].objs) < MaxList
           /\ children' = [children EXCEPT ![parent][n].objs = Append(@, child)]
    /\ UNCHANGED <<cls, userAttr, tableVars, fileVars, callVars, codecVars>>

\* What register_keras_serializable accepts: a function, or a class that has
\* get_config.
Registrable == {"Dense", "MyLayer", "Shadow", "my_fn"}

\* A registration call, between save/load calls: the alias now names x, and x
\* the alias.  A later registration of the alias overrides the earlier one.
Register(alias, x) ==
    /\ pc \in {"build", "idle"}
    /\ nregs < MaxRegs
    /\ nregs' = nregs + 1
    /\ registry' = [registry EXCEPT ![alias] = x]
    /\ aliasOf' = [aliasOf EXCEPT ![x] = alias]
    /\ UNCHANGED <<cls, children, userAttr, fileVars, callVars, codecVars>>

\* ------------------------------------------------------------ save and load
CanCall == pc \in {"build", "idle"} /\ ncalls < MaxCalls

\* The scratch directory tempfile.mkdtemp made for the call: a fresh name.
TempPath == ncalls

RootFrame(o, c) ==
    [obj |-> o, class |-> c, path |-> STATES_ROOT_DIRNAME, depth |-> 1]

\* tf.io.gfile.join(zip_dir_path, _STATES_FILENAME) in _save_state
SaveStatePath(zip_dir_path) == JoinPath(zip_dir_path, STATES_FILENAME)

\* A slip: the state entry looked up at the archive's root path, whatever the
\* node's own.
LoadStatePathOfRoot(zip_dir_path) ==
    JoinPath(STATES_ROOT_DIRNAME, STATES_FILENAME)

\* state_path in _load_state
LoadStatePath(zip_dir_path) == JoinPath(zip_dir_path, STATES_FILENAME)

\* A call that ends, by returning ("ok") or by raising.
Ends(how) ==
    /\ result' = how
    /\ pc' = "idle"
    /\ stack' = <<>>

\* save, up to its first _save_state call: the container directory, the
\* record and its JSON, the scratch directory, the archive opened for
\* exclusive creation and its config entry.
SaveBegin(model) ==
    /\ CanCall
    /\ ncalls' = ncalls + 1
    /\ op' = "save"
    /\ before' = archive
    /\ visits' = <<>>
    /\ root' = AsValue(model)
    /\ LET serialized_model_dict == SerializeKerasObject(AsValue(model))
           z == ZipCreate(archive)
       IN  IF serialized_model_dict.error # None
           THEN /\ Ends(serialized_model_dict.error)
                /\ UNCHANGED <<fileVars, given, saved>>
           ELSE IF z.error # None
           THEN /\ Ends(z.error)
                /\ tempDirs' = tempDirs \cup {ncalls + 1}
                /\ UNCHANGED <<archive, archived, given, saved>>
           ELSE /\ result' = None
                /\ pc' = "save"
                /\ tempDirs' = tempDirs \cup {ncalls + 1}
                /\ archive' = ZipWrite(z.file, CONFIG_FILENAME,
                                       EncodeJson(serialized_model_dict.value))
                /\ archived' = "partial"
                /\ stack' = <<RootFrame(model, cls[model])>>
                /\ given' = model
                /\ saved' = <<>>
    /\ UNCHANGED <<cls, children, userAttr, tableVars, codecVars>>

\* One invocation of _save_state whose hook, if the object has one, returns.
\* The pending invocations are kept most urgent first: the children's follow
\* the parent's own, before the parent's later siblings (pre-order).
SaveVisit ==
    /\ pc = "save"
    /\ stack # <<>>
    /\ LET f == Head(stack)
           blob == IF HasStateHooks(f.class) THEN StateOf(f.obj, f.class) ELSE <<>>
           v == [obj |-> f.obj, path |-> f.path,
                 hook |-> HasStateHooks(f.class), blob |-> blob]
       IN  IF f.depth > RecursionLimit
           THEN /\ Ends("RecursionError")
                /\ saved' = visits
                /\ UNCHANGED <<archive, visits>>
           ELSE /\ archive' = IF blob # <<>>
                              THEN ZipWrite(archive, SaveStatePath(f.path), blob)
                              ELSE archive
                /\ visits' = Append(visits, v)
                /\ saved' = Append(visits, v)
                /\ stack' = ChildFrames(GetUniqueChildrenDict(f.obj), f.path, f.depth)
                            \o Tail(stack)
                /\ UNCHANGED <<result, pc>>
    /\ UNCHANGED <<cls, children, userAttr, tableVars, codecVars, archived,
                   tempDirs, op, ncalls, given, root, before>>

\* One invocation of _save_state whose hook raises: the exception leaves save
\* through the with block, which closes the archive.
SaveHookRaises ==
    /\ pc = "save"
    /\ stack # <<>>
    /\ Head(stack).depth <= RecursionLimit
    /\ HasStateHooks(Head(stack).class)
    /\ Ends("HookError")
    /\ UNCHANGED <<cls, children, userAttr, tableVars, codecVars, fileVars, op,
                   ncalls, given, root, visits, saved, before>>

\* The end of save: the archive is closed and listed, the scratch directory
\* removed.
SaveEnd ==
    /\ pc = "save"
    /\ stack = <<>>
    /\ tempDirs' = tempDirs \ {TempPath}
    /\ archived' = "complete"
    /\ Ends("ok")
    /\ UNCHANGED <<cls, children, userAttr, tableVars, codecVars, archive, op,
                   ncalls, given, root, visits, saved, before>>

\* load, up to its first _load_state call: the scratch directory, the archive
\* opened for reading, its config entry decoded and deserialized.
LoadBegin ==
    /\ CanCall
    /\ ncalls' = ncalls + 1
    /\ op' = "load"
    /\ before' = archive
    /\ visits' = <<>>
    /\ tempDirs' = tempDirs \cup {ncalls + 1}
    /\ IF ~archive.exists
       THEN /\ Ends("FileNotFoundError")
            /\ root' = NoneValue
       ELSE LET config_dict == DecodeJson(ZipRead(archive, CONFIG_FILENAME))
                model == DeserializeKerasObject(config_dict)
            IN  IF model.error # None
                THEN /\ Ends(model.error)
                     /\ root' = NoneValue
                ELSE /\ result' = None
                     /\ pc' = "load"
                     /\ root' = model.value
                     /\ stack' = <<RootFrame(TwinOf(model.value.config),
                                             model.value.of)>>
    /\ UNCHANGED <<cls, children, userAttr, tableVars, codecVars, archive,
                   archived, given, saved>>

\* One invocation of _load_state whose hook, if invoked, returns.
LoadVisit ==
    /\ pc = "load"
    /\ stack # <<>>
    /\ LET f == Head(stack)
           state_path == LoadStatePath(f.path)
           absorbs == state_path \in Namelist(archive) /\ HasStateHooks(f.class)
           v == [obj |-> f.obj, path |-> f.path, hook |-> absorbs,
                 blob |-> IF absorbs THEN ZipRead(archive, state_path) ELSE <<>>]
       IN  IF f.depth > RecursionLimit
           THEN /\ Ends("RecursionError")
                /\ UNCHANGED visits
           ELSE /\ visits' = Append(visits, v)
                /\ stack' = ChildFrames(GetUniqueChildrenDict(f.obj), f.path, f.depth)
                            \o Tail(stack)
                /\ UNCHANGED <<result, pc>>
    /\ UNCHANGED <<cls, children, userAttr, tableVars, codecVars, fileVars, op,
                   ncalls, given, root, saved, before>>

\* One invocation of _load_state whose hook raises on the extracted file.
LoadHookRaises ==
    /\ pc = "load"
    /\ stack # <<>>
    /\ Head(stack).depth <= RecursionLimit
    /\ HasStateHooks(Head(stack).class)
    /\ LoadStatePath(Head(stack).path) \in Namelist(archive)
    /\ Ends("HookError")
    /\ UNCHANGED <<cls, children, userAttr, tableVars, codecVars, fileVars, op,
                   ncalls, given, root, visits, saved, before>>

\* The end of load: the archive is closed, the scratch directory removed if
\* it exists, the model returned.
LoadEnd ==
    /\ pc = "load"
    /\ stack = <<>>
    /\ tempDirs' = IF TempPath \in tempDirs THEN tempDirs \ {TempPath} ELSE tempDirs
    /\ Ends("ok")
    /\ UNCHANGED <<cls, children, userAttr, tableVars, codecVars, archive,
                   archived, op, ncalls, given, root, visits, saved, before>>

\* ---------------------------------------------------------- the codec alone
\* The records handed to deserialize_keras_object.
RecordModules == {None, "builtins", "user_mod", "gone_mod"}
RecordClassNames == {"str", "function", "keras.layers.Dense", "MyLayer",
                     "Variable"}
RecordConfigs == {<<"str", "hello">>, <<"int", "42">>, <<"dict", "name", "1">>,
                  <<"dict", "module", "user_mod", "function_name", "my_fn">>,
                  <<"dict", "module", "user_mod", "function_name", "gone_fn">>,
                  <<"dict", "module", "gone_mod", "function_name", "my_fn">>}
Records == [module : RecordModules, class_name : RecordClassNames,
            config : RecordConfigs, registered_name : {None, "pkg>X"}]

\* The values handed to serialize_keras_object.
Values == {StrValue("hello"), FunctionValue("my_fn")}
          \cup {Instance(c, <<"dict", "name", "1">>) :
                   c \in {"Dense", "MyLayer", "Shadow", "Variable"}}

\* No codec call made yet: rec or out holds the argument of the call to come.
Pending(v) == [error |-> None, value |-> v, via |-> None]

\* The call deserialize_keras_object(rec).
DeserializeCall ==
    /\ out = Pending(NoneValue)
    /\ out' = DeserializeKerasObject(rec)
    /\ UNCHANGED <<cls, children, userAttr, tableVars, fileVars, callVars, rec>>

\* The call serialize_keras_object(out.value).
SerializeCall ==
    /\ out.via = None
    /\ out.value # NoneValue
    /\ LET d == SerializeKerasObject(out.value)
       IN  /\ rec' = d.value
           /\ out' = [error |-> d.error, value |-> out.value, via |-> "serialize"]
    /\ UNCHANGED <<cls, children, userAttr, tableVars, fileVars, callVars>>

\* ------------------------------------------------------- the specifications
NoTables ==
    /\ registry = [a \in Aliases |-> None]
    /\ aliasOf = [x \in Classes \cup Functions |-> None]
    /\ nregs = 0

NoCall ==
    /\ archive = NoArchive
    /\ archived = "none"
    /\ tempDirs = {}
    /\ pc = "build"
    /\ op = None
    /\ ncalls = 0
    /\ given = 0
    /\ root = NoneValue
    /\ stack = <<>>
    /\ visits = <<>>
    /\ saved = <<>>
    /\ result = None
    /\ before = NoArchive

NoCodecCall ==
    /\ rec = NoRecord
    /\ out = Pending(NoneValue)

ClassesOf(c3) == [o \in Objects |->
                     IF o = 1 THEN "Dense" ELSE IF o = 2 THEN "MyLayer" ELSE c3]

\* The archive and the walker: a caller builds an object graph, then calls
\* save and load on one container directory.  No hook raises.
Init ==
    /\ \E c3 \in {"Activation", "Variable", "Adam"} : cls = ClassesOf(c3)
    /\ children = [o \in Objects |-> <<>>]
    /\ userAttr = "MyLayer"
    /\ NoTables
    /\ NoCall
    /\ NoCodecCall

Build ==
    \/ \E parent, child \in Objects : \E attr \in Attrs :
           TrackAttr(parent, attr, child)
    \/ \E parent, child \in Objects : \E attr \in Attrs :
           TrackList(parent, attr, child)
    \/ \E parent, child \in Objects : TrackAppend(parent, child)

Walk ==
    \/ SaveVisit
    \/ SaveEnd
    \/ LoadBegin
    \/ LoadVisit
    \/ LoadEnd

Next ==
    \/ Build
    \/ \E model \in Roots : SaveBegin(model)
    \/ Walk

Spec == Init /\ [][Next]_vars

\* The same, with state hooks that may raise.
FaultNext ==
    \/ Next
    \/ SaveHookRaises
    \/ LoadHookRaises

FaultSpec == Init /\ [][FaultNext]_vars

\* Round trips of childless objects of every class, in a process whose
\* registration table changes and whose user module may have rebound or lost
\* the name MyLayer.
RoundTripInit ==
    /\ \E c3 \in {"Adam", "Shadow", "Variable"} : cls = ClassesOf(c3)
    /\ children = [o \in Objects |-> <<>>]
    /\ userAttr \in {"MyLayer", "Shadow", None}
    /\ NoTables
    /\ NoCall
    /\ NoCodecCall

RoundTripNext ==
    \/ \E alias \in Aliases : \E x \in Registrable : Register(alias, x)
    \/ \E model \in Objects : SaveBegin(model)
    \/ Walk

RoundTripSpec == RoundTripInit /\ [][RoundTripNext]_vars

\* The codec alone: serialize and deserialize on arbitrary values and records.
CodecInit ==
    /\ cls = ClassesOf("Adam")
    /\ children = [o \in Objects |-> <<>>]
    /\ userAttr \in {"MyLayer", "Shadow", None}
    /\ NoTables
    /\ NoCall
    /\ \/ rec \in Records /\ out = Pending(NoneValue)
       \/ rec = NoRecord /\ \E obj \in Values : out = Pending(obj)

\* Registrations come first: once the call is made the behaviour is over.
CodecNext ==
    \/ /\ out.via = None
       /\ \E alias \in Aliases : \E x \in Registrable : Register(alias, x)
    \/ DeserializeCall
    \/ SerializeCall

CodecSpec == CodecInit /\ [][CodecNext]_vars

\* ------------------------------------------------------------------ claims
CallEnded == pc = "idle" /\ op # None

\* C1: after any call to save or load has ended, by returning or by raising
\* at any step, the scratch directory the call created no longer exists.
C1_ScratchRemovedAfterEveryCall == CallEnded => TempPath \notin tempDirs

\* C2: a save on a destination that already holds an archive fails with the
\* destination-exists error before any entry is written: the archive's
\* entries are what they were before the call.
C2_NoSilentOverwrite ==
    (op = "save" /\ before.exists) =>
        /\ pc = "idle"
        /\ result = "FileExistsError"
        /\ archive = before

C2_Witness ==
    /\ op = "save"
    /\ result = "FileExistsError"
    /\ Len(before.entries) >= 2
    /\ archive = before

\* The invocations of the save that wrote a state blob.
SavedBlobs == {i \in 1..Len(saved) : saved[i].blob # <<>>}

SameBlob(s, v) == s.path = v.path /\ s.obj = v.obj /\ s.blob = v.blob

\* C3: a load of the archive a save completed ends normally having given
\* the absorb hook of the node at each tree path the blob that node wrote at
\* that path during the save, and no absorb hook is ever given a blob written
\* at another path.
C3_StateRoundTrip ==
    /\ op = "load" =>
           \A j \in 1..Len(visits) :
               visits[j].hook => \E i \in SavedBlobs : SameBlob(saved[i], visits[j])
    /\ (op = "load" /\ pc = "idle" /\ archived = "complete") =>
           /\ result = "ok"
           /\ \A i \in SavedBlobs :
                  \E j \in 1..Len(visits) :
                      visits[j].hook /\ SameBlob(saved[i], visits[j])

C3_Witness ==
    /\ op = "load"
    /\ pc = "idle"
    /\ archived = "complete"
    /\ result = "ok"
    /\ \E i, j \in SavedBlobs : saved[i].obj # saved[j].obj
    /\ \E j \in 1..Len(visits) : ~visits[j].hook

\* The names a parent's children give its children, in the order met: the
\* attribute's, or <attribute>-<k> for the k-th element of a list.
RECURSIVE ListNames(_, _, _)
ListNames(attr, objs, k) ==
    IF k >= Len(objs) THEN <<>>
    ELSE <<<<ListKey(attr, k), objs[k + 1]>>>> \o ListNames(attr, objs, k + 1)

RECURSIVE ChildNames(_, _)
ChildNames(cd, i) ==
    IF i > Len(cd) THEN <<>>
    ELSE (IF cd[i].list THEN ListNames(cd[i].attr, cd[i].objs, 0)
          ELSE <<<<cd[i].attr, cd[i].objs[1]>>>>) \o ChildNames(cd, i + 1)

\* C4: a layer referenced under two names among one parent's children gets
\* exactly one archive path under that parent, that of the name met first.
C4_OneArchivePathPerChild ==
    (op = "save" /\ pc = "idle" /\ result = "ok") =>
        \A p \in 1..Len(visits) : \A x \in Objects :
            LET names == ChildNames(children[visits[p].obj], 1)
                refs == {i \in 1..Len(names) : names[i][2] = x}
                first == CHOOSE i \in refs : \A k \in refs : i <= k
                under == {j \in 1..Len(visits) :
                             /\ visits[j].obj = x
                             /\ \E i \in refs :
                                    visits[j].path =
                                        JoinPath(visits[p].path, names[i][1])}
            IN  (IsKerasTrackable(x) /\ Cardinality(refs) >= 2) =>
                    /\ Cardinality(under) = 1
                    /\ \A j \in under :
                           visits[j].path =
                               JoinPath(visits[p].path, names[first][1])

\* The record of the object that was saved, and of the object load returned.
SavedRecord == SerializeKerasObject(AsValue(given)).value
LoadedRecord == SerializeKerasObject(root).value

RoundTripped ==
    /\ op = "load"
    /\ pc = "idle"
    /\ result = "ok"
    /\ archived = "complete"

\* The step in which a load of a completed archive returns.
LoadReturns ==
    /\ pc = "load"
    /\ archived = "complete"
    /\ pc' = "idle"
    /\ result' = "ok"

\* C5: the record of the object a load returns, after a save of G, equals
\* the record of G in all four keys.
C5_RoundTripIdentity == [][LoadReturns => LoadedRecord' = SavedRecord']_vars

\* The record in the archive resolves to the class of the saved object: by
\* its registered_name, or, when that names nothing, by its class_name and
\* module.
ResolvesToOwnClass ==
    LET d == DecodeJson(ZipRead(archive, CONFIG_FILENAME))
        custom_class == GetCustomObjectsByName(d.registered_name)
        found == ResolveClass(d.module, d.class_name)
    IN  IF custom_class # None THEN custom_class = cls[given]
        ELSE found.error = None /\ found.value = cls[given]

\* C5 amended: when a load returns, the records are equal provided the record
\* in the archive resolves, at that load, to the class of the saved object.
C5_RoundTripWithoutDrift ==
    [][(LoadReturns /\ ResolvesToOwnClass) => LoadedRecord' = SavedRecord']_vars

C5_Witness ==
    /\ RoundTripped
    /\ ResolvesToOwnClass
    /\ SavedRecord.registered_name # None
    /\ userAttr # cls[given]
    /\ LoadedRecord = SavedRecord

Deserialized == out.via \notin {None, "serialize"}

Resolves(r) == GetCustomObjectsByName(r.registered_name) # None

Unfound(r) ==
    IF r.module = "builtins"
    THEN /\ r.class_name = "function"
         /\ \/ DictGet(r.config, "module") \notin Modules
            \/ ModuleVars(DictGet(r.config, "module"),
                          DictGet(r.config, "function_name")) = None
    ELSE IF r.module = None THEN GetSymbolFromName(r.class_name) = None
    ELSE r.module \notin Modules \/ ModuleVars(r.module, r.class_name) = None

\* C7: a record whose class, module or function cannot be found, and whose
\* registered_name does not resolve, makes deserialize end with an error:
\* it never returns None or another object.
C7_ResolutionFailureIsAnError ==
    (Deserialized /\ ~Resolves(rec) /\ Unfound(rec)) => out.error # None

\* C8: a load of an archive that has no state entry for some node it visits
\* succeeds.
C8_MissingStateIsNotAnError ==
    (/\ op = "load"
     /\ pc = "idle"
     /\ root # NoneValue
     /\ \E j \in 1..Len(visits) :
            LoadStatePath(visits[j].path) \notin Namelist(archive)) =>
        result = "ok"

\* C9: during one save or load, no object is visited twice.
C9_NoNodeVisitedTwice ==
    \A i, j \in 1..Len(visits) : i # j => visits[i].obj # visits[j].obj

\* C10: the traversal of save and of load ends by finishing its visits, for
\* every object graph, cyclic ones included: it never runs out of stack.
C10_TraversalTerminates == result # "RecursionError"

====
